---- MODULE Spec2Model ----
(***************************************************************************)
(* State-machine model of the S3 storage backup agent                      *)
(* (custom_components/s3_storage/backup.py), of its listener registry and  *)
(* of the config flow (config_flow.py).                                    *)
(*                                                                         *)
(* The bucket is the only shared state.  Every invocation of a public      *)
(* operation is a process that advances one store call (or one client      *)
(* acquire / release, or one chunk of the caller's stream) per step.       *)
(* Store calls can fail: with a botocore ClientError (which carries a      *)
(* response, with or without an error code) or with a fault that is not    *)
(* a ClientError (a connection fault).                                     *)
(***************************************************************************)
EXTENDS Integers, Sequences, FiniteSets, TLC

VARIABLES
    bucket,     \* the store: key -> object, or Absent
    op,         \* per invocation: func.__name__ of the public operation, or "idle"
    pc,         \* per invocation: position in the operation's code
    arg,        \* per invocation: the backup_id (get, download, delete)
    backup,     \* per invocation: the AgentBackup record (upload)
    stream,     \* per invocation: the chunks of the caller's stream (upload)
    nread,      \* per invocation: how many of them the upload loop has consumed
    data,       \* per invocation: upload's buffer `data`
    yielded,    \* per invocation: chunks the download generator handed to the caller
    page,       \* per invocation: objects of the current listing page not yet visited
    token,      \* per invocation: continuation of the listing (last key listed)
    key,        \* per invocation: the key returned by _find_object_by_backup_id
    backups,    \* per invocation: list's accumulator `backups`
    status,     \* per invocation: "running", "returned" or "raised"
    result,     \* per invocation: the records returned (get: one, list: all)
    raised,     \* per invocation: the exception that crossed the boundary
    fault,      \* per invocation: the store fault injected into it (history)
    acquired,   \* per invocation: client handles entered (__aenter__)
    released,   \* per invocation: client handles exited (__aexit__)
    calls,      \* per invocation: object-level store calls issued (by kind)
    pre,        \* per invocation: the bucket when the operation was called (history)
    prev,       \* per invocation: the caller's previous successful upload / delete
    client,     \* per invocation: the client handle it holds open, or NoClient
    hassData,   \* hass.data: key -> value (the keys it holds are its domain)
    removers,   \* remove_listener callbacks returned and not yet called, by listener
    lastRemove, \* the last remove_listener call: its listener and what it raised
    entries,    \* the config entries of the domain
    flow,       \* the result of the last config-flow step
    probe       \* the last validate_config call: its config and what head_bucket did

\* The backup agent's part of the state.
agentVars == << bucket, op, pc, arg, backup, stream, nread, data, yielded, page, token, key,
                backups, status, result, raised, fault, acquired, released, calls, pre, prev,
                client >>

\* The host's part: the listener registry and the config flow.
listenerVars == << hassData, removers, lastRemove >>
flowVars == << entries, flow, probe >>
hostVars == << listenerVars, flowVars >>

vars == << agentVars, hostVars >>

----------------------------------------------------------------------------
(* Bounds of the model *)

\* Number of keys the bucket can hold; keys are listed in increasing order.
NumKeys == 3

\* Objects per page of list_objects_v2 (1000 in the real store).
PageSize == 2

\* Longest chunk sequence a caller's stream delivers.
MaxChunks == 2

Keys == 1..NumKeys

\* Invocations; Caller is the host's sequential caller.
Procs == {"p1", "p2"}
Caller == "p1"

Ids == {"a", "b"}
Names == {"n1", "n2"}

\* AgentBackup: the fields that matter here (name stands for name and date).
Records == [backup_id : Ids, name : Names]

\* The caller's stream of n chunks delivers the chunks <<1>>, <<2>>, ..., <<n>>.
ChunkSeq(n) == [i \in 1..n |-> << i >>]

\* The chunk sequences a caller may upload: the empty one and the longest one.
Payloads == {ChunkSeq(0), ChunkSeq(MaxChunks)}

RECURSIVE Concat(_)
Concat(chunks) ==
    IF chunks = << >> THEN << >> ELSE Head(chunks) \o Concat(Tail(chunks))

----------------------------------------------------------------------------
(* Values *)

NoField == "<missing>"
NoCode == "<no code>"
None == "<none>"
NoKey == 0
NoClient == 0

METADATA_VERSION == "1"

\* json.dumps(backup.as_dict()): the record as a flat list of field names and values.
json_dumps(b) == << "backup_id", b.backup_id, "name", b.name >>

\* The backup_metadata field of metadata that has none (strings are lists here).
NoString == << NoField >>

\* json.loads(s) succeeds and yields what from_dict accepts.
Decodable(s) ==
    /\ s # NoString
    /\ Len(s) = 4
    /\ s[1] = "backup_id"
    /\ s[3] = "name"

\* AgentBackup.from_dict(json.loads(s)) of a decodable string.
from_dict(s) == [backup_id |-> s[2], name |-> s[4]]

\* Mutant: a file name that is not stable, it depends on what the bucket holds
\* when the upload runs.
suggested_filename_unstable(b) == IF bucket[NumKeys - 1].present THEN NumKeys ELSE NumKeys - 1

\* suggested_filename(backup): derived from name and date, not from backup_id.
suggested_filename(b) == IF b.name = "n1" THEN 2 ELSE 3

\* Object metadata as head_object returns it: response.get("Metadata", {}).
Envelope(v, id, m) == [metadata_version |-> v, backup_id |-> id, backup_metadata |-> m]

NoMetadata == Envelope(NoField, NoField, NoString)

Object(meta, body) == [present |-> TRUE, meta |-> meta, body |-> body]

Absent == [present |-> FALSE, meta |-> NoMetadata, body |-> << >>]

\* Objects this agent did not write: no metadata, no version field, another version.
ForeignObjects ==
    { Object(NoMetadata, <<9>>),
      Object(Envelope(NoField, "a", json_dumps([backup_id |-> "a", name |-> "n1"])), <<9>>),
      Object(Envelope("2", "a", json_dumps([backup_id |-> "a", name |-> "n1"])), <<9>>) }

\* Version "1" objects whose backup_metadata is missing or does not decode.
CorruptObjects ==
    { Object(Envelope(METADATA_VERSION, "a", NoString), <<9>>),
      Object(Envelope(METADATA_VERSION, "a", << "{" >>), <<9>>) }

IsForeign(o) == o.present /\ o.meta.metadata_version # METADATA_VERSION

\* Exceptions: one shape for all.
Exc(t, f, c, m) == [type |-> t, func |-> f, code |-> c, msg |-> m]
NoExc == Exc("none", None, None, None)

\* botocore ClientError: response["Error"]["Code"] may be missing.
ClientErrors ==
    { Exc("ClientError", None, "AccessDenied", "Access Denied"),
      Exc("ClientError", None, NoCode, "Unknown") }

\* The ClientError of head_object on a key that does not exist.
NoSuchKey == Exc("ClientError", None, "404", "Not Found")

\* A store-client fault that is not a ClientError (botocore EndpointConnectionError).
ConnectionFault == Exc("EndpointConnectionError", None, None, "Could not connect")

\* Faults any store call can meet, and those of a call that names a key to read.
StoreFaults == ClientErrors \cup {ConnectionFault}
HeadFaults == StoreFaults \cup {NoSuchKey}

\* Failure of the caller's chunk stream.
StreamFault == Exc("StreamError", None, None, "stream failed")

BackupNotFound(id) == Exc("BackupNotFound", None, None, id)

\* Object-level calls issued: head_scan counts the head_object calls of a scan,
\* head_key those of async_get_backup on the resolved key.
NoCalls == [put_object |-> 0, delete_object |-> 0, get_object |-> 0, head_key |-> 0,
            head_scan |-> 0]

NoPrev == [op |-> "none", backup_id |-> None, name |-> None]

AcquireFault == Exc("ValueError", None, None, "Invalid endpoint")

AwaitTypeError ==
    Exc("TypeError", None, None, "object async_generator can't be used in 'await' expression")

KeyErrorExc == Exc("KeyError", None, None, "backup_metadata")

JSONDecodeErrorExc == Exc("JSONDecodeError", None, None, "Expecting value")

NoMorePages == -1

\* stream.read(8192): the most bytes one downloaded chunk holds.
READ_SIZE == 8192

PublicOps == {"async_list_backups", "async_get_backup", "async_download_backup",
              "async_upload_backup", "async_delete_backup"}

ByIdOps == {"async_get_backup", "async_download_backup", "async_delete_backup"}

----------------------------------------------------------------------------
(* The store *)

\* Keys present in bucket b, as the listing returns them (increasing order).
RECURSIVE ListingFrom(_, _)
ListingFrom(b, k) ==
    IF k > NumKeys THEN << >>
    ELSE IF b[k].present THEN << k >> \o ListingFrom(b, k + 1)
    ELSE ListingFrom(b, k + 1)

Listing(b) == ListingFrom(b, 1)

\* One list_objects_v2 page: at most PageSize keys after the continuation token.
PageAfter(b, t) ==
    LET rest == ListingFrom(b, t + 1)
    IN  IF Len(rest) > PageSize THEN SubSeq(rest, 1, PageSize) ELSE rest

\* Mutant: the scan reads the first page only.
TruncatedNever(b, t) == FALSE

\* IsTruncated of that page.
Truncated(b, t) == Len(ListingFrom(b, t + 1)) > PageSize

\* The initial bucket holds only objects that are not this agent's: any of them
\* under the first key (which no upload writes), possibly one under the last.
InitBuckets ==
    {b \in [Keys -> {Absent} \cup ForeignObjects] :
        \A k \in Keys : /\ (k > 1 /\ k < NumKeys) => b[k] = Absent
                        /\ (k = NumKeys /\ k > 1) =>
                              b[k] \in {Absent, Object(NoMetadata, <<9>>)}}

----------------------------------------------------------------------------
(* handle_backup_errors *)

\* err.response.get("Error", {}).get("Code", "")
error_code(err) == IF err.code = NoCode THEN "" ELSE err.code

\* Mutant: the code read as err.response["Error"]["Code"], which fails when the
\* response has no code.
handle_backup_errors_strict(funcName, exc) ==
    IF exc.type = "ClientError"
    THEN IF exc.code = NoCode
         THEN Exc("KeyError", None, None, "Code")
         ELSE Exc("BackupAgentError", funcName, exc.code, exc.msg)
    ELSE exc

\* What the wrapper lets out when the wrapped call raises exc.
handle_backup_errors(funcName, exc) ==
    IF exc.type = "ClientError"
    THEN Exc("BackupAgentError", funcName, error_code(exc), exc.msg)
    ELSE exc

----------------------------------------------------------------------------
(* Steps of an invocation *)

Upd(f, p, v) == [f EXCEPT ![p] = v]

ClearLocals(p) ==
    /\ nread' = Upd(nread, p, 0)
    /\ data' = Upd(data, p, << >>)
    /\ page' = Upd(page, p, << >>)
    /\ token' = Upd(token, p, 0)
    /\ key' = Upd(key, p, NoKey)
    /\ backups' = Upd(backups, p, << >>)

\* The operation returns recs to the caller.
Returns(p, recs) ==
    /\ pc' = Upd(pc, p, "done")
    /\ status' = Upd(status, p, "returned")
    /\ result' = Upd(result, p, recs)
    /\ raised' = Upd(raised, p, NoExc)
    /\ ClearLocals(p)

\* The operation's body raises exc; the wrapper decides what crosses.
Raises(p, exc) ==
    /\ pc' = Upd(pc, p, "done")
    /\ status' = Upd(status, p, "raised")
    /\ result' = Upd(result, p, << >>)
    /\ raised' = Upd(raised, p, handle_backup_errors(op[p], exc))
    /\ ClearLocals(p)

\* Mutant: no finally block, the client stays open when the call fails.
FailsInTryLeaking(p, exc) ==
    /\ UNCHANGED << released, client >>
    /\ Raises(p, exc)

\* An awaited call fails inside a try block: the finally block releases the
\* client (client.__aexit__) and the exception leaves the operation.
FailsInTry(p, exc) ==
    /\ released' = Upd(released, p, released[p] + 1)
    /\ client' = Upd(client, p, NoClient)
    /\ Raises(p, exc)

\* The store answers a call with fault f.
StoreFails(p, f) ==
    /\ fault' = Upd(fault, p, f)
    /\ FailsInTry(p, f)

\* The step goes on to position next and leaves the outcome open.
Goto(p, next) ==
    /\ pc' = Upd(pc, p, next)
    /\ UNCHANGED << status, result, raised >>

Summary(p) ==
    IF status[p] = "returned" /\ op[p] = "async_upload_backup"
    THEN [op |-> op[p], backup_id |-> backup[p].backup_id, name |-> backup[p].name]
    ELSE IF status[p] = "returned" /\ op[p] = "async_delete_backup"
    THEN [op |-> op[p], backup_id |-> arg[p], name |-> None]
    ELSE NoPrev

NoBackup == [backup_id |-> None, name |-> None]

FirstPc(o) ==
    CASE o = "async_download_backup" -> "await"
      [] o \in {"async_get_backup", "async_delete_backup"} -> "find_client"
      [] OTHER -> "client"

\* The caller invokes public operation o (the wrapper calls func).
Invoke(p, o, id, b, s) ==
    /\ pc[p] \in {"idle", "done"}
    /\ op' = Upd(op, p, o)
    /\ pc' = Upd(pc, p, FirstPc(o))
    /\ arg' = Upd(arg, p, id)
    /\ backup' = Upd(backup, p, b)
    /\ stream' = Upd(stream, p, s)
    /\ nread' = Upd(nread, p, 0)
    /\ yielded' = Upd(yielded, p, << >>)
    /\ data' = Upd(data, p, << >>)
    /\ page' = Upd(page, p, << >>)
    /\ token' = Upd(token, p, 0)
    /\ key' = Upd(key, p, NoKey)
    /\ backups' = Upd(backups, p, << >>)
    /\ status' = Upd(status, p, "running")
    /\ result' = Upd(result, p, << >>)
    /\ raised' = Upd(raised, p, NoExc)
    /\ fault' = Upd(fault, p, NoExc)
    /\ acquired' = Upd(acquired, p, 0)
    /\ released' = Upd(released, p, 0)
    /\ calls' = Upd(calls, p, NoCalls)
    /\ pre' = Upd(pre, p, bucket)
    /\ prev' = Upd(prev, p, Summary(p))
    /\ UNCHANGED << bucket, client >>
    /\ UNCHANGED hostVars

Call(p) ==
    \/ Invoke(p, "async_list_backups", None, NoBackup, << >>)
    \/ \E o \in ByIdOps, id \in Ids : Invoke(p, o, id, NoBackup, << >>)
    \/ \E b \in Records, s \in Payloads : Invoke(p, "async_upload_backup", None, b, s)

\* `await func(...)` of the wrapper, func being async_download_backup: an async
\* generator function.  Calling it runs none of its body and returns an async
\* generator object, which cannot be awaited.
AwaitGenerator(p) ==
    /\ pc[p] = "await"
    /\ Raises(p, AwaitTypeError)
    /\ UNCHANGED << bucket, op, arg, backup, stream, yielded, fault, acquired,
                    released, client, calls, pre, prev >>
    /\ UNCHANGED hostVars

AfterClient(o) ==
    CASE o = "async_list_backups" -> "list_page"
      [] o = "async_get_backup" -> "head_key"
      [] o = "async_delete_backup" -> "delete_object"
      [] o = "async_upload_backup" -> "read_chunk"

\* Client handles: a new client object is distinct from every client that is open.
ClientIds == 1..Cardinality(Procs)

\* Mutant: the agent keeps one client and hands it to every invocation.
CachedClient == CHOOSE h \in ClientIds : \A g \in ClientIds : h <= g

\* self._session.client(...).__aenter__(): a client object of its own.
NewClient == CHOOSE h \in ClientIds : \A q \in Procs : client[q] # h

\* _get_client: enters a client, or fails to (outside any try block).
GetClient(p) ==
    /\ pc[p] \in {"find_client", "client"}
    /\ \/ /\ acquired' = Upd(acquired, p, acquired[p] + 1)
          /\ client' = Upd(client, p, NewClient)
          /\ Goto(p, IF pc[p] = "find_client" THEN "find_page" ELSE AfterClient(op[p]))
          /\ UNCHANGED << nread, data, page, token, key, backups, fault >>
       \/ /\ Raises(p, AcquireFault)
          /\ fault' = Upd(fault, p, AcquireFault)
          /\ UNCHANGED << acquired, client >>
    /\ UNCHANGED << bucket, op, arg, backup, stream, yielded, released, calls, pre, prev >>
    /\ UNCHANGED hostVars

ReleasePc(p) == IF pc[p] \in {"find_page", "find_head"} THEN "find_release" ELSE "release"

\* One page of paginator.paginate (list_objects_v2), in the scan of
\* _find_object_by_backup_id and of async_list_backups.
ListObjectsPage(p) ==
    /\ pc[p] \in {"find_page", "list_page"}
    /\ \/ /\ page' = Upd(page, p, PageAfter(bucket, token[p]))
          /\ token' = Upd(token, p,
                IF Truncated(bucket, token[p])
                THEN PageAfter(bucket, token[p])[PageSize]
                ELSE NoMorePages)
          /\ Goto(p, IF PageAfter(bucket, token[p]) = << >>
                     THEN ReleasePc(p)
                     ELSE IF pc[p] = "find_page" THEN "find_head" ELSE "list_head")
          /\ UNCHANGED << nread, data, key, backups, fault, released, client >>
       \/ \E f \in StoreFaults : StoreFails(p, f)
    /\ UNCHANGED << bucket, op, arg, backup, stream, yielded, acquired, calls, pre, prev >>
    /\ UNCHANGED hostVars

\* Where the scan goes after the object at the head of the page.
ScanOn(p) ==
    IF Len(page[p]) > 1 THEN pc[p]
    ELSE IF token[p] = NoMorePages THEN ReleasePc(p)
    ELSE IF pc[p] = "find_head" THEN "find_page" ELSE "list_page"

\* The scan passes over the object at the head of the page.
Skip(p) ==
    /\ Goto(p, ScanOn(p))
    /\ page' = Upd(page, p, Tail(page[p]))
    /\ UNCHANGED << key, token, backups >>

\* Mutant: the match test without the version guard.
MatchesAnyVersion(metadata, backup_id) == backup_id = metadata.backup_id

\* The match test of _find_object_by_backup_id.
Matches(metadata, backup_id) ==
    /\ metadata.metadata_version = METADATA_VERSION
    /\ backup_id = metadata.backup_id

\* metadata["backup_metadata"] and json.loads of a string that does not decode.
DecodeError(metadata) ==
    IF metadata.backup_metadata = NoString THEN KeyErrorExc ELSE JSONDecodeErrorExc

\* Mutant: the scan goes on after a match and keeps the last one.
FindVisitLast(p, k, metadata) ==
    /\ key' = Upd(key, p, IF Matches(metadata, arg[p]) THEN k ELSE key[p])
    /\ Goto(p, ScanOn(p))
    /\ page' = Upd(page, p, Tail(page[p]))
    /\ UNCHANGED << token, backups, nread, data, released, client >>

\* Mutant: the scan keeps the first match but goes on to the end of the listing.
FindVisitExhaustive(p, k, metadata) ==
    /\ key' = Upd(key, p, IF Matches(metadata, arg[p]) /\ key[p] = NoKey THEN k ELSE key[p])
    /\ Goto(p, ScanOn(p))
    /\ page' = Upd(page, p, Tail(page[p]))
    /\ UNCHANGED << token, backups, nread, data, released, client >>

\* Loop body of _find_object_by_backup_id, after head_object answered metadata
\* for key k.
FindVisit(p, k, metadata) ==
    IF Matches(metadata, arg[p])
    THEN /\ key' = Upd(key, p, k)
         /\ Goto(p, "find_release")
         /\ page' = Upd(page, p, << >>)
         /\ token' = Upd(token, p, 0)
         /\ UNCHANGED << nread, data, backups, released, client >>
    ELSE /\ Skip(p)
         /\ UNCHANGED << nread, data, released, client >>

\* Loop body of async_list_backups, after head_object answered metadata.
ListVisit(p, metadata) ==
    IF metadata.metadata_version # METADATA_VERSION
    THEN /\ Skip(p)
         /\ UNCHANGED << nread, data, released, client >>
    ELSE IF Decodable(metadata.backup_metadata)
    THEN /\ backups' = Upd(backups, p,
                Append(backups[p], from_dict(metadata.backup_metadata)))
         /\ Goto(p, ScanOn(p))
         /\ page' = Upd(page, p, Tail(page[p]))
         /\ UNCHANGED << key, token, nread, data, released, client >>
    ELSE FailsInTry(p, DecodeError(metadata))

Count(c, kind) == [c EXCEPT ![kind] = c[kind] + 1]

\* head_object of the next object of the page, and the loop body on its answer.
HeadObjectScan(p) ==
    /\ pc[p] \in {"find_head", "list_head"}
    /\ calls' = Upd(calls, p, Count(calls[p], "head_scan"))
    /\ LET k == Head(page[p])
       IN  \/ /\ bucket[k].present
              /\ IF pc[p] = "find_head"
                 THEN FindVisit(p, k, bucket[k].meta)
                 ELSE ListVisit(p, bucket[k].meta)
              /\ UNCHANGED fault
           \/ \* the key is gone since the page was listed
              /\ ~ bucket[k].present
              /\ FailsInTry(p, NoSuchKey)
              /\ UNCHANGED fault
           \/ \E f \in HeadFaults : StoreFails(p, f)
    /\ UNCHANGED << bucket, op, arg, backup, stream, yielded, acquired, pre, prev >>
    /\ UNCHANGED hostVars

\* The finally block of _find_object_by_backup_id, its return, and the caller's
\* `if key is None: raise BackupNotFound`.
ReleaseFind(p) ==
    /\ pc[p] = "find_release"
    /\ released' = Upd(released, p, released[p] + 1)
    /\ client' = Upd(client, p, NoClient)
    /\ IF key[p] = NoKey
       THEN Raises(p, BackupNotFound(arg[p]))
       ELSE /\ Goto(p, "client")
            /\ UNCHANGED << nread, data, page, token, key, backups >>
    /\ UNCHANGED << bucket, op, arg, backup, stream, yielded, fault, acquired, calls,
                    pre, prev >>
    /\ UNCHANGED hostVars

\* async_get_backup: head_object of the resolved key, then from_dict(json.loads(..)).
HeadObjectKey(p) ==
    /\ pc[p] = "head_key"
    /\ calls' = Upd(calls, p, Count(calls[p], "head_key"))
    /\ LET metadata == bucket[key[p]].meta
       IN  \/ /\ bucket[key[p]].present
              /\ IF Decodable(metadata.backup_metadata)
                 THEN /\ backups' = Upd(backups, p, << from_dict(metadata.backup_metadata) >>)
                      /\ Goto(p, "release")
                      /\ UNCHANGED << nread, data, page, token, key, released, client >>
                 ELSE FailsInTry(p, DecodeError(metadata))
              /\ UNCHANGED fault
           \/ /\ ~ bucket[key[p]].present
              /\ FailsInTry(p, NoSuchKey)
              /\ UNCHANGED fault
           \/ \E f \in HeadFaults : StoreFails(p, f)
    /\ UNCHANGED << bucket, op, arg, backup, stream, yielded, acquired, pre, prev >>
    /\ UNCHANGED hostVars

\* Mutant: the delete removes every object that carries the backup_id.
DeleteObjectAll(p) ==
    /\ pc[p] = "delete_object"
    /\ calls' = Upd(calls, p, Count(calls[p], "delete_object"))
    /\ bucket' = [k \in Keys |->
                    IF bucket[k].present /\ Matches(bucket[k].meta, arg[p])
                    THEN Absent ELSE bucket[k]]
    /\ Goto(p, "release")
    /\ UNCHANGED << nread, data, page, token, key, backups, fault, released, client >>
    /\ UNCHANGED << op, arg, backup, stream, yielded, acquired, pre, prev >>
    /\ UNCHANGED hostVars

\* async_delete_backup: delete_object of the resolved key.
DeleteObject(p) ==
    /\ pc[p] = "delete_object"
    /\ calls' = Upd(calls, p, Count(calls[p], "delete_object"))
    /\ \/ /\ bucket' = [bucket EXCEPT ![key[p]] = Absent]
          /\ Goto(p, "release")
          /\ UNCHANGED << nread, data, page, token, key, backups, fault, released, client >>
       \/ /\ \E f \in StoreFaults : StoreFails(p, f)
          /\ UNCHANGED bucket
    /\ UNCHANGED << op, arg, backup, stream, yielded, acquired, pre, prev >>
    /\ UNCHANGED hostVars

\* Mutant: `data = chunk`, the buffer keeps the last chunk only.
BufferedLast(d, chunk) == chunk

\* `data += chunk`
Buffered(d, chunk) == d \o chunk

\* async_upload_backup: one turn of `async for chunk in await open_stream()`.
ReadChunk(p) ==
    /\ pc[p] = "read_chunk"
    /\ \/ /\ nread[p] < Len(stream[p])
          /\ data' = Upd(data, p, Buffered(data[p], stream[p][nread[p] + 1]))
          /\ nread' = Upd(nread, p, nread[p] + 1)
          /\ UNCHANGED << pc, status, result, raised, page, token, key, backups,
                          fault, released, client >>
       \/ /\ nread[p] = Len(stream[p])
          /\ Goto(p, "put_object")
          /\ UNCHANGED << nread, data, page, token, key, backups, fault, released, client >>
       \/ StoreFails(p, StreamFault)
    /\ UNCHANGED << bucket, op, arg, backup, stream, yielded, acquired, calls, pre, prev >>
    /\ UNCHANGED hostVars

\* Mutant: the envelope without its version tag.
UploadMetadataUnversioned(b) == Envelope(NoField, b.backup_id, json_dumps(b))

\* The envelope async_upload_backup attaches.
UploadMetadata(b) == Envelope(METADATA_VERSION, b.backup_id, json_dumps(b))

\* async_upload_backup: the put_object call.
PutObject(p) ==
    /\ pc[p] = "put_object"
    /\ calls' = Upd(calls, p, Count(calls[p], "put_object"))
    /\ \/ /\ bucket' = [bucket EXCEPT ![suggested_filename(backup[p])] =
                            Object(UploadMetadata(backup[p]), data[p])]
          /\ Goto(p, "release")
          /\ data' = Upd(data, p, << >>)
          /\ UNCHANGED << nread, page, token, key, backups, fault, released, client >>
       \/ /\ \E f \in StoreFaults : StoreFails(p, f)
          /\ UNCHANGED bucket
    /\ UNCHANGED << op, arg, backup, stream, yielded, acquired, pre, prev >>
    /\ UNCHANGED hostVars

\* The finally block of a public operation (client.__aexit__) and its return.
Release(p) ==
    /\ pc[p] = "release"
    /\ released' = Upd(released, p, released[p] + 1)
    /\ client' = Upd(client, p, NoClient)
    /\ Returns(p, backups[p])
    /\ UNCHANGED << bucket, op, arg, backup, stream, yielded, fault, acquired, calls,
                    pre, prev >>
    /\ UNCHANGED hostVars

\* The steps of an invocation under way.
Run(p) ==
    \/ AwaitGenerator(p)
    \/ GetClient(p)
    \/ ListObjectsPage(p)
    \/ HeadObjectScan(p)
    \/ ReleaseFind(p)
    \/ HeadObjectKey(p)
    \/ DeleteObject(p)
    \/ ReadChunk(p)
    \/ PutObject(p)
    \/ Release(p)

Step(p) == Call(p) \/ Run(p)

----------------------------------------------------------------------------
(* The listener registry: async_register_backup_agents_listener *)

\* Callables the host registers; the same one may be registered more than once.
Listeners == {"l1", "l2", "l3"}

\* Most remove callbacks outstanding at a time.
MaxRegistered == 4

DATA_BACKUP_AGENT_LISTENERS == "s3_storage.backup_agent_listeners"

\* A key of hass.data that belongs to another component.
OtherKey == "homeassistant.core"

NoRemove == [listener |-> None, raised |-> NoExc]

RECURSIVE Occurrences(_, _)
Occurrences(xs, x) ==
    IF xs = << >> THEN 0
    ELSE (IF Head(xs) = x THEN 1 ELSE 0) + Occurrences(Tail(xs), x)

RECURSIVE Total(_, _)
Total(f, S) ==
    IF S = {} THEN 0
    ELSE LET x == CHOOSE y \in S : TRUE IN f[x] + Total(f, S \ {x})

\* hass.data.setdefault(DATA_BACKUP_AGENT_LISTENERS, []).append(listener)
setdefault_append(d, listener) ==
    IF DATA_BACKUP_AGENT_LISTENERS \in DOMAIN d
    THEN [d EXCEPT ![DATA_BACKUP_AGENT_LISTENERS] = Append(@, listener)]
    ELSE [k \in DOMAIN d \cup {DATA_BACKUP_AGENT_LISTENERS} |->
            IF k = DATA_BACKUP_AGENT_LISTENERS THEN << listener >> ELSE d[k]]

\* list.remove(x): the list without its first item equal to x.
RECURSIVE list_remove(_, _)
list_remove(xs, x) ==
    IF xs = << >> THEN << >>
    ELSE IF Head(xs) = x THEN Tail(xs)
    ELSE << Head(xs) >> \o list_remove(Tail(xs), x)

\* Mutant: remove_listener without the pop of the emptied list.
remove_listener_keeping_key(d, listener) ==
    [d EXCEPT ![DATA_BACKUP_AGENT_LISTENERS] = list_remove(@, listener)]

\* The body of remove_listener on hass.data d, when the listener is in the list.
remove_listener(d, listener) ==
    LET rest == list_remove(d[DATA_BACKUP_AGENT_LISTENERS], listener)
    IN  IF rest = << >>
        THEN [k \in DOMAIN d \ {DATA_BACKUP_AGENT_LISTENERS} |-> d[k]]
        ELSE [d EXCEPT ![DATA_BACKUP_AGENT_LISTENERS] = rest]

\* What remove_listener raises on hass.data d, if anything.
remove_raises(d, listener) ==
    IF DATA_BACKUP_AGENT_LISTENERS \notin DOMAIN d
    THEN Exc("KeyError", None, None, DATA_BACKUP_AGENT_LISTENERS)
    ELSE IF Occurrences(d[DATA_BACKUP_AGENT_LISTENERS], listener) = 0
    THEN Exc("ValueError", None, None, "list.remove(x): x not in list")
    ELSE NoExc

\* async_register_backup_agents_listener(hass, listener=l): returns a remove callback.
RegisterListener ==
    /\ Total(removers, Listeners) < MaxRegistered
    /\ \E l \in Listeners :
          /\ hassData' = setdefault_append(hassData, l)
          /\ removers' = [removers EXCEPT ![l] = @ + 1]
    /\ UNCHANGED << lastRemove, flowVars, agentVars >>

\* The host calls a remove callback it has not called yet.
RemoveListener ==
    /\ \E l \in Listeners :
          /\ removers[l] > 0
          /\ removers' = [removers EXCEPT ![l] = @ - 1]
          /\ lastRemove' = [listener |-> l, raised |-> remove_raises(hassData, l)]
          /\ IF remove_raises(hassData, l) = NoExc
             THEN hassData' = remove_listener(hassData, l)
             ELSE UNCHANGED hassData
    /\ UNCHANGED << flowVars, agentVars >>

----------------------------------------------------------------------------
(* The config flow: S3StorageConfigFlow *)

\* Most config entries of the domain.
MaxEntries == 2

AccessKeyIds == {"k1", "k2"}
SecretAccessKeys == {"s1", "s2"}
BucketNames == {"bk1"}

\* A configuration: the fields the flow reads (endpoint and region play no part).
Configs == [access_key_id : AccessKeyIds, secret_access_key : SecretAccessKeys,
            bucket_name : BucketNames]

\* user_input is None.
NoInput == [access_key_id |-> None, secret_access_key |-> None, bucket_name |-> None]

\* What the probe (boto3 session, client, head_bucket) does: NoExc when it
\* succeeds, else the exception it raises.
ProbeErrorCodes == {"403", "InvalidAccessKeyId", "SignatureDoesNotMatch", "404",
                    "NoSuchBucket", "500", NoCode}

ProbeOutcomes ==
    {NoExc} \cup {Exc("ClientError", None, c, "probe failed") : c \in ProbeErrorCodes}
            \cup {Exc("ParamValidationError", None, None, "Invalid bucket name"),
                  Exc("EndpointConnectionError", None, None, "Could not connect")}

NoErrors == {}
BaseError(e) == {<< "base", e >>}

\* err.response.get("Error", {}).get("Code", "") of validate_config
probe_error_code(err) == IF err.code = NoCode THEN "" ELSE err.code

\* Mutant: a missing bucket is not reported.
validate_config_lenient(outcome) ==
    IF outcome = NoExc THEN NoErrors
    ELSE IF outcome.type = "ClientError"
    THEN IF probe_error_code(outcome) \in {"403", "InvalidAccessKeyId", "SignatureDoesNotMatch"}
         THEN BaseError("invalid_auth")
         ELSE IF probe_error_code(outcome) \in {"404", "NoSuchBucket"}
         THEN NoErrors
         ELSE BaseError("unknown")
    ELSE IF outcome.type = "ParamValidationError" THEN BaseError("invalid_config")
    ELSE BaseError("unknown")

\* validate_config: the errors dict, given what the probe did.
validate_config(outcome) ==
    IF outcome = NoExc THEN NoErrors
    ELSE IF outcome.type = "ClientError"
    THEN IF probe_error_code(outcome) \in {"403", "InvalidAccessKeyId", "SignatureDoesNotMatch"}
         THEN BaseError("invalid_auth")
         ELSE IF probe_error_code(outcome) \in {"404", "NoSuchBucket"}
         THEN BaseError("cannot_connect")
         ELSE BaseError("unknown")
    ELSE IF outcome.type = "ParamValidationError" THEN BaseError("invalid_config")
    ELSE BaseError("unknown")

\* Results of a flow step.
FlowResult(t, step, errors, d) == [type |-> t, step_id |-> step, errors |-> errors, data |-> d]
NoFlow == FlowResult("none", None, NoErrors, NoInput)
NoProbe == [config |-> NoInput, outcome |-> NoExc]

\* _async_abort_entries_match: an entry has this access key id and bucket name.
EntriesMatch(es, input) ==
    \E i \in 1..Len(es) : /\ es[i].access_key_id = input.access_key_id
                          /\ es[i].bucket_name = input.bucket_name

\* async_step_user(user_input)
StepUser ==
    /\ \E user_input \in Configs \cup {NoInput}, outcome \in ProbeOutcomes :
          IF user_input = NoInput
          THEN /\ flow' = FlowResult("form", "user", NoErrors, NoInput)
               /\ UNCHANGED << entries, probe >>
          ELSE IF EntriesMatch(entries, user_input)
          THEN /\ flow' = FlowResult("abort", "already_configured", NoErrors, NoInput)
               /\ UNCHANGED << entries, probe >>
          ELSE /\ probe' = [config |-> user_input, outcome |-> outcome]
               /\ IF validate_config(outcome) = NoErrors
                  THEN /\ Len(entries) < MaxEntries
                       /\ entries' = Append(entries, user_input)
                       /\ flow' = FlowResult("create_entry", "user", NoErrors, user_input)
                  ELSE /\ flow' = FlowResult("form", "user", validate_config(outcome), NoInput)
                       /\ UNCHANGED entries
    /\ UNCHANGED << listenerVars, agentVars >>

\* The config dict async_step_reauth_confirm builds: {**reauth_entry.data, key, secret}.
ReauthConfig(entry, user_input) ==
    [entry EXCEPT !.access_key_id = user_input.access_key_id,
                  !.secret_access_key = user_input.secret_access_key]

\* async_step_reauth_confirm(user_input), the reauth entry being entries[i]
StepReauthConfirm ==
    /\ \E i \in 1..Len(entries), k \in AccessKeyIds \cup {None}, s \in SecretAccessKeys,
          outcome \in ProbeOutcomes :
          LET user_input == IF k = None THEN NoInput
                            ELSE [NoInput EXCEPT !.access_key_id = k, !.secret_access_key = s]
              config == ReauthConfig(entries[i], user_input)
          IN  IF user_input = NoInput
              THEN /\ flow' = FlowResult("form", "reauth_confirm", NoErrors, NoInput)
                   /\ UNCHANGED << entries, probe >>
              ELSE /\ probe' = [config |-> config, outcome |-> outcome]
                   /\ IF validate_config(outcome) = NoErrors
                      THEN /\ entries' = [entries EXCEPT ![i] = config]
                           /\ flow' = FlowResult("abort", "reauth_successful", NoErrors, config)
                      ELSE /\ flow' = FlowResult("form", "reauth_confirm",
                                                 validate_config(outcome), NoInput)
                           /\ UNCHANGED entries
    /\ UNCHANGED << listenerVars, agentVars >>

\* Nothing registered, no entry, no flow step taken.
HostIdle ==
    /\ hassData = [k \in {OtherKey} |-> << >>]
    /\ removers = [l \in Listeners |-> 0]
    /\ lastRemove = NoRemove
    /\ entries = << >>
    /\ flow = NoFlow
    /\ probe = NoProbe

Idle ==
    /\ op = [p \in Procs |-> "idle"]
    /\ pc = [p \in Procs |-> "idle"]
    /\ arg = [p \in Procs |-> None]
    /\ backup = [p \in Procs |-> NoBackup]
    /\ stream = [p \in Procs |-> << >>]
    /\ nread = [p \in Procs |-> 0]
    /\ yielded = [p \in Procs |-> << >>]
    /\ data = [p \in Procs |-> << >>]
    /\ page = [p \in Procs |-> << >>]
    /\ token = [p \in Procs |-> 0]
    /\ key = [p \in Procs |-> NoKey]
    /\ backups = [p \in Procs |-> << >>]
    /\ status = [p \in Procs |-> "returned"]
    /\ result = [p \in Procs |-> << >>]
    /\ raised = [p \in Procs |-> NoExc]
    /\ fault = [p \in Procs |-> NoExc]
    /\ acquired = [p \in Procs |-> 0]
    /\ released = [p \in Procs |-> 0]
    /\ calls = [p \in Procs |-> NoCalls]
    /\ prev = [p \in Procs |-> NoPrev]
    /\ client = [p \in Procs |-> NoClient]
    /\ HostIdle

\* A bucket that holds at most objects of other writers; nothing is running.
Init ==
    /\ bucket \in InitBuckets
    /\ pre = [p \in Procs |-> bucket]
    /\ Idle

\* A bucket where one version "1" object has no usable backup_metadata.
InitCorrupt ==
    /\ bucket \in {[k \in Keys |-> IF k = 1 THEN o ELSE Absent] : o \in CorruptObjects}
    /\ pre = [p \in Procs |-> bucket]
    /\ Idle

\* The host calls the operations one after the other.
Next == Step(Caller)

Spec == Init /\ [][Next]_vars

SpecCorrupt == InitCorrupt /\ [][Next]_vars

\* Backups already in the bucket when concurrent callers start: any of the
\* records with the first id, each under the key its upload gave it.
StoredAtStart == SUBSET {R \in Records : R.backup_id = "a"}

InitConcurrent ==
    /\ \E S \in StoredAtStart :
          bucket = [k \in Keys |->
                      IF \E R \in S : suggested_filename(R) = k
                      THEN Object(UploadMetadata(
                              CHOOSE R \in S : suggested_filename(R) = k), << >>)
                      ELSE Absent]
    /\ pre = [p \in Procs |-> bucket]
    /\ Idle

\* Two callers, one invocation each, their steps interleaved in any order; every
\* step holds one store call at most.
NextConcurrent == \E p \in Procs : (pc[p] = "idle" /\ Call(p)) \/ Run(p)

SpecConcurrent == InitConcurrent /\ [][NextConcurrent]_vars

\* The registry alone, over an empty bucket.
InitHost ==
    /\ bucket = [k \in Keys |-> Absent]
    /\ pre = [p \in Procs |-> bucket]
    /\ Idle

NextListeners == RegisterListener \/ RemoveListener

SpecListeners == InitHost /\ [][NextListeners]_vars

NextConfigFlow == StepUser \/ StepReauthConfirm

SpecConfigFlow == InitHost /\ [][NextConfigFlow]_vars

----------------------------------------------------------------------------
(* Vocabulary of the properties *)

Done(p) == pc[p] = "done"

\* No fault was injected into p's invocation: the store answered every call, the
\* client was acquired, the caller's stream delivered.
FaultFree(p) == fault[p] = NoExc

\* The object under key k of bucket b is a backup with this backup_id.
Carries(b, k, id) == b[k].present /\ Matches(b[k].meta, id)

Resolvable(b, id) == \E k \in Keys : Carries(b, k, id)

\* The first key, in listing order, that carries id.
FirstCarrier(b, id) == CHOOSE k \in Keys :
    /\ Carries(b, k, id)
    /\ \A j \in Keys : j < k => ~ Carries(b, j, id)

\* The record the caller's previous operation uploaded.
Uploaded(p) == [backup_id |-> prev[p].backup_id, name |-> prev[p].name]

AfterUpload(p) == Done(p) /\ prev[p].op = "async_upload_backup"

AfterDelete(p) == Done(p) /\ prev[p].op = "async_delete_backup"

\* An object listed before R's own key carries R's backup_id.
Shadowed(b, R) == \E k \in Keys : k < suggested_filename(R) /\ Carries(b, k, R.backup_id)

Contains(recs, R) == \E i \in 1..Len(recs) : recs[i] = R

----------------------------------------------------------------------------
(* C1 *)

\* C1 (as stated): right after upload_backup(R, chunks) succeeded, a
\* get_backup(R.backup_id) that meets no fault returns R, and a list_backups()
\* that meets no fault contains R.
C1_RoundTrip ==
    \A p \in Procs : (AfterUpload(p) /\ FaultFree(p)) =>
        /\ (op[p] = "async_get_backup" /\ arg[p] = Uploaded(p).backup_id) =>
              (status[p] = "returned" /\ result[p] = << Uploaded(p) >>)
        /\ op[p] = "async_list_backups" =>
              (status[p] = "returned" /\ Contains(result[p], Uploaded(p)))

\* C1 (what the code does): right after upload_backup(R, chunks) succeeded, a fault-free
\* list_backups() contains R, and a fault-free get_backup(R.backup_id) returns R
\* unless an object listed before R's key carries version "1" and R.backup_id:
\* then it returns the record of the first such object.
C1_RoundTripUnlessShadowed ==
    \A p \in Procs : (AfterUpload(p) /\ FaultFree(p)) =>
        /\ (op[p] = "async_get_backup" /\ arg[p] = Uploaded(p).backup_id) =>
              /\ status[p] = "returned"
              /\ IF Shadowed(pre[p], Uploaded(p))
                 THEN result[p] = << from_dict(
                        pre[p][FirstCarrier(pre[p], arg[p])].meta.backup_metadata) >>
                 ELSE result[p] = << Uploaded(p) >>
        /\ op[p] = "async_list_backups" =>
              (status[p] = "returned" /\ Contains(result[p], Uploaded(p)))

\* A get right after the upload of a non-empty payload returned the record, while
\* another object (listed later) carries the same backup_id.
C1_Witness ==
    \E p \in Procs :
        /\ AfterUpload(p) /\ FaultFree(p)
        /\ op[p] = "async_get_backup" /\ arg[p] = Uploaded(p).backup_id
        /\ result[p] = << Uploaded(p) >>
        /\ bucket[suggested_filename(Uploaded(p))].body # << >>
        /\ \E k \in Keys : k > suggested_filename(Uploaded(p)) /\ Carries(bucket, k, arg[p])

----------------------------------------------------------------------------
(* C2 *)

\* C2 (as stated): download_backup(X) of a stored backup, called through the
\* wrapped entry point and meeting no fault, hands the caller non-empty chunks of
\* at most 8192 bytes whose concatenation is the stored payload.
C2_DownloadHandsBytes ==
    \A p \in Procs :
        (Done(p) /\ op[p] = "async_download_backup" /\ FaultFree(p)
                 /\ Resolvable(pre[p], arg[p])) =>
            /\ status[p] = "returned"
            /\ Concat(yielded[p]) = pre[p][FirstCarrier(pre[p], arg[p])].body
            /\ \A i \in 1..Len(yielded[p]) :
                  Len(yielded[p][i]) > 0 /\ Len(yielded[p][i]) <= READ_SIZE

----------------------------------------------------------------------------
(* C3 *)

\* C3 (as stated): right after delete_backup(X) succeeded, get_backup(X) and
\* download_backup(X) fail with BackupNotFound and list_backups() holds no record
\* with backup_id X (fault-free calls).
C3_DeleteThenGet ==
    \A p \in Procs : (AfterDelete(p) /\ FaultFree(p)) =>
        /\ (op[p] \in {"async_get_backup", "async_download_backup"}
              /\ arg[p] = prev[p].backup_id) =>
              (status[p] = "raised" /\ raised[p] = BackupNotFound(arg[p]))
        /\ op[p] = "async_list_backups" =>
              /\ status[p] = "returned"
              /\ \A i \in 1..Len(result[p]) : result[p][i].backup_id # prev[p].backup_id

----------------------------------------------------------------------------
(* C4 *)

\* C4 (as stated): get, download and delete of an id that no version "1" object
\* carries end with BackupNotFound itself and issue no get_object, no head_object
\* by key and no delete_object (fault-free scan).
C4_NotFoundUnresolved ==
    \A p \in Procs :
        (Done(p) /\ op[p] \in ByIdOps /\ FaultFree(p) /\ ~ Resolvable(pre[p], arg[p])) =>
            /\ status[p] = "raised"
            /\ raised[p] = BackupNotFound(arg[p])
            /\ calls[p].get_object = 0
            /\ calls[p].head_key = 0
            /\ calls[p].delete_object = 0

----------------------------------------------------------------------------
(* C5 *)

\* C5: whenever the store answered a call of an invocation with a ClientError,
\* the invocation ends with BackupAgentError carrying the name of the public
\* operation, the fault's code ("" when it has none) and the fault's message.
C5_ErrorNormalization ==
    \A p \in Procs : (Done(p) /\ fault[p].type = "ClientError") =>
        /\ op[p] \in PublicOps
        /\ status[p] = "raised"
        /\ raised[p] = Exc("BackupAgentError", op[p],
                           IF fault[p].code = NoCode THEN "" ELSE fault[p].code,
                           fault[p].msg)

\* A delete whose resolve scan met a ClientError without a code ended with the
\* normalized error naming async_delete_backup and the code "".
C5_Witness ==
    \E p \in Procs :
        /\ Done(p) /\ op[p] = "async_delete_backup"
        /\ fault[p].type = "ClientError" /\ fault[p].code = NoCode
        /\ calls[p].delete_object = 0 /\ acquired[p] = 1
        /\ raised[p].func = "async_delete_backup" /\ raised[p].code = ""

----------------------------------------------------------------------------
(* C6 *)

\* C6 (as stated): an invocation that fails ends with BackupNotFound or with
\* BackupAgentError, whatever went wrong.
C6_OnlyTwoShapes ==
    \A p \in Procs : (Done(p) /\ status[p] = "raised") =>
        raised[p].type \in {"BackupNotFound", "BackupAgentError"}

----------------------------------------------------------------------------
(* C7 *)

\* C7 (as stated): a get, download, delete or list in which head_object answered
\* "no such key" ends with BackupNotFound.
C7_NoSuchKeyIsNotFound ==
    \A p \in Procs :
        (Done(p) /\ fault[p] = NoSuchKey
                 /\ op[p] \in {"async_get_backup", "async_download_backup",
                               "async_delete_backup", "async_list_backups"}) =>
            (status[p] = "raised" /\ raised[p].type = "BackupNotFound")

----------------------------------------------------------------------------
(* C8 *)

\* Bucket b without the objects that are not version "1".
Strip(b) == [k \in Keys |-> IF IsForeign(b[k]) THEN Absent ELSE b[k]]

\* The records of the objects under keys, in that order.
RecordsOf(b, keys) == [i \in 1..Len(keys) |-> from_dict(b[keys[i]].meta.backup_metadata)]

\* The keys of b whose object names id as its backup_id.
Holders(b, id) == {k \in Keys : b[k].present /\ b[k].meta.backup_id = id}

Lowest(S) == CHOOSE k \in S : \A j \in S : k <= j

----------------------------------------------------------------------------
(* C9 *)

\* C9: an invocation never releases a client it did not acquire, acquires the
\* next one only after releasing the one before (so each release is of a distinct
\* client), and when it has ended, however it ended, it has released every client
\* it acquired.
C9_ClientReleased ==
    \A p \in Procs :
        /\ released[p] <= acquired[p]
        /\ acquired[p] - released[p] <= 1
        /\ Done(p) => released[p] = acquired[p]

\* A delete failed at its delete_object call, after the resolve scan: two clients
\* were acquired and both are released.
C9_Witness ==
    \E p \in Procs :
        /\ Done(p) /\ op[p] = "async_delete_backup" /\ status[p] = "raised"
        /\ calls[p].delete_object = 1
        /\ acquired[p] = 2 /\ released[p] = 2

----------------------------------------------------------------------------
(* C10 *)

\* The object a successful upload of record b with these chunks leaves.
UploadedObject(b, chunks) ==
    Object(Envelope("1", b.backup_id, json_dumps(b)), Concat(chunks))

\* C10: an upload issues its one put_object only when the whole chunk sequence is
\* in the buffer; up to the put, and when the upload fails (stream, put, client),
\* the bucket is as it was; when it succeeds, exactly the key derived from the
\* record has changed and holds the envelope and the whole payload.
C10_UploadAllOrNothing ==
    \A p \in Procs : op[p] = "async_upload_backup" =>
        /\ calls[p].put_object <= 1
        /\ pc[p] \in {"client", "read_chunk", "put_object"} =>
              (calls[p].put_object = 0 /\ bucket = pre[p])
        /\ pc[p] = "put_object" =>
              (nread[p] = Len(stream[p]) /\ data[p] = Concat(stream[p]))
        /\ (Done(p) /\ status[p] = "raised") => bucket = pre[p]
        /\ (Done(p) /\ status[p] = "returned") =>
              /\ calls[p].put_object = 1
              /\ bucket = [pre[p] EXCEPT ![suggested_filename(backup[p])] =
                                UploadedObject(backup[p], stream[p])]

\* The put of an upload failed after the whole two-chunk stream was consumed.
C10_Witness ==
    \E p \in Procs :
        /\ Done(p) /\ op[p] = "async_upload_backup" /\ status[p] = "raised"
        /\ calls[p].put_object = 1
        /\ Len(stream[p]) >= 2

----------------------------------------------------------------------------
(* C11 *)

\* C11 (as stated): under any interleaving of two callers' invocations, an
\* invocation that meets no store fault ends as it could in a sequential order:
\* list_backups and upload_backup return, and get_backup, download_backup and
\* delete_backup either return or end with BackupNotFound, never with another error.
C11_ConcurrentSafe ==
    \A p \in Procs : (Done(p) /\ FaultFree(p)) =>
        /\ op[p] \in {"async_list_backups", "async_upload_backup"} => status[p] = "returned"
        /\ op[p] \in ByIdOps =>
              (status[p] = "returned" \/ raised[p] = BackupNotFound(arg[p]))

----------------------------------------------------------------------------
(* C12 *)

\* The keys of bucket b that hold an object.
Present(b) == {k \in Keys : b[k].present}

\* The keys of bucket b whose object is a backup with record R.
KeysOf(b, R) ==
    {k \in Keys : /\ Carries(b, k, R.backup_id)
                  /\ Decodable(b[k].meta.backup_metadata)
                  /\ from_dict(b[k].meta.backup_metadata) = R}

\* C12: an upload of record R right after a successful upload of the same R adds
\* no object: it replaces the object under R's key by the new envelope and payload
\* and leaves one object for R; and a fault-free list_backups() right after an
\* upload holds the uploaded record once, and no record twice.
C12_ReuploadOverwrites ==
    \A p \in Procs :
        /\ (Done(p) /\ op[p] = "async_upload_backup" /\ status[p] = "returned"
                    /\ prev[p].op = "async_upload_backup" /\ Uploaded(p) = backup[p]) =>
              /\ Present(bucket) = Present(pre[p])
              /\ KeysOf(pre[p], backup[p]) = {suggested_filename(backup[p])}
              /\ KeysOf(bucket, backup[p]) = {suggested_filename(backup[p])}
              /\ bucket[suggested_filename(backup[p])].body = Concat(stream[p])
        /\ (Done(p) /\ op[p] = "async_list_backups" /\ FaultFree(p)) =>
              /\ \A R \in Records : Occurrences(result[p], R) <= 1
              /\ prev[p].op = "async_upload_backup" => Occurrences(result[p], Uploaded(p)) = 1

\* A record was uploaded twice in a row, the second time with another payload,
\* which is now the one stored under its key.
C12_Witness ==
    \E p \in Procs :
        /\ Done(p) /\ op[p] = "async_upload_backup" /\ status[p] = "returned"
        /\ prev[p].op = "async_upload_backup" /\ Uploaded(p) = backup[p]
        /\ pre[p][suggested_filename(backup[p])].body # Concat(stream[p])
        /\ bucket[suggested_filename(backup[p])].body = Concat(stream[p])

----------------------------------------------------------------------------
(* C13 *)

\* The keys of bucket b whose object is a backup with this backup_id.
Carriers(b, id) == {k \in Keys : Carries(b, k, id)}

\* C13 (as stated): in every state reached by uploads and deletes, no two objects
\* carry the same backup_id, and a successful upload has not replaced the object
\* of a backup with another backup_id.
C13_OneObjectPerBackup ==
    /\ \A id \in Ids : Cardinality(Carriers(bucket, id)) <= 1
    /\ \A p \in Procs :
          (Done(p) /\ op[p] = "async_upload_backup" /\ status[p] = "returned") =>
              \A id \in Ids \ {backup[p].backup_id} :
                  ~ Carries(pre[p], suggested_filename(backup[p]), id)

----------------------------------------------------------------------------
(* C14 *)

\* The keys of the listing of b whose object has metadata_version "1", in
\* listing order.
VersionedKeys(b) ==
    LET IsVersioned(k) == b[k].meta.metadata_version = METADATA_VERSION
    IN  SelectSeq(Listing(b), IsVersioned)

\* C14: a list_backups() that meets no fault returns, after one metadata fetch per
\* listed object over all pages, the records of the objects with metadata_version
\* "1", one per object and in listing order; on a bucket without objects it
\* returns the empty collection.
C14_ListAllPages ==
    \A p \in Procs : (Done(p) /\ op[p] = "async_list_backups" /\ FaultFree(p)) =>
        LET ks == VersionedKeys(pre[p])
        IN  /\ status[p] = "returned"
            /\ Len(result[p]) = Len(ks)
            /\ \A i \in 1..Len(ks) :
                  result[p][i] = from_dict(pre[p][ks[i]].meta.backup_metadata)
            /\ calls[p].head_scan = Len(Listing(pre[p]))
            /\ Listing(pre[p]) = << >> => result[p] = << >>

\* A list over a bucket of more objects than a page holds, a foreign one among
\* them, returned the records of two backups.
C14_Witness ==
    \E p \in Procs :
        /\ Done(p) /\ op[p] = "async_list_backups" /\ FaultFree(p)
        /\ Len(Listing(pre[p])) > PageSize
        /\ \E k \in Keys : IsForeign(pre[p][k])
        /\ Len(result[p]) = 2 /\ result[p][1] # result[p][2]

----------------------------------------------------------------------------
(* C15 *)

\* How many objects the listing of b holds up to key k.
ListedUpTo(b, k) == Cardinality({j \in Present(b) : j <= k})

\* The invocation runs _find_object_by_backup_id (get and delete; the body of
\* download, the third caller, is never entered).
Resolves(p) == op[p] \in {"async_get_backup", "async_delete_backup"}

\* C15: when the scan of _find_object_by_backup_id(X) ends without a fault, it has
\* the key of the first object in listing order that carries X and has fetched the
\* metadata of the objects up to that one only; or no object carries X, it has
\* fetched the metadata of every object of the listing and has no key, and the
\* caller ends with BackupNotFound.
C15_ResolveShortCircuits ==
    \A p \in Procs : Resolves(p) =>
        /\ pc[p] = "find_release" =>
              IF Resolvable(pre[p], arg[p])
              THEN /\ key[p] = FirstCarrier(pre[p], arg[p])
                   /\ calls[p].head_scan = ListedUpTo(pre[p], key[p])
              ELSE /\ key[p] = NoKey
                   /\ calls[p].head_scan = Len(Listing(pre[p]))
        /\ (Done(p) /\ FaultFree(p)) =>
              IF Resolvable(pre[p], arg[p])
              THEN /\ status[p] = "returned"
                   /\ calls[p].head_scan = ListedUpTo(pre[p], FirstCarrier(pre[p], arg[p]))
              ELSE /\ raised[p] = BackupNotFound(arg[p])
                   /\ calls[p].head_scan = Len(Listing(pre[p]))

\* A scan ended on a match while a later object, never fetched, carries the same
\* backup_id.
C15_Witness ==
    \E p \in Procs :
        /\ Resolves(p) /\ pc[p] = "find_release" /\ key[p] # NoKey
        /\ \E j \in Keys : j > key[p] /\ Carries(pre[p], j, arg[p])
        /\ calls[p].head_scan < Len(Listing(pre[p]))

----------------------------------------------------------------------------
(* C16 *)

\* The last key, in listing order, that carries id.
LastCarrier(b, id) == CHOOSE k \in Carriers(b, id) : \A j \in Carriers(b, id) : j <= k

\* Two objects at least carry the id the invocation asks for, and it met no fault.
OnDuplicate(p) ==
    /\ Done(p) /\ FaultFree(p) /\ op[p] \in ByIdOps
    /\ Cardinality(Carriers(pre[p], arg[p])) >= 2

\* C16 (as stated): when two objects carry backup_id X, the object that
\* get_backup(X), download_backup(X) and delete_backup(X) act on is the one that
\* comes last in the listing: get returns its record, delete removes it, and the
\* chunks download hands over are its payload.
C16_LastInListing ==
    \A p \in Procs : OnDuplicate(p) =>
        LET k == LastCarrier(pre[p], arg[p])
        IN  /\ (op[p] = "async_get_backup" /\ status[p] = "returned") =>
                  result[p] = << from_dict(pre[p][k].meta.backup_metadata) >>
            /\ (op[p] = "async_download_backup" /\ yielded[p] # << >>) =>
                  Concat(yielded[p]) = pre[p][k].body
            /\ (op[p] = "async_delete_backup" /\ status[p] = "returned") =>
                  bucket = [pre[p] EXCEPT ![k] = Absent]

\* C16 (amended): when two objects carry backup_id X, get_backup(X) returns the
\* record of the one that comes first in the listing and delete_backup(X) removes
\* that one and no other; download_backup(X) resolves nothing: it ends with the
\* TypeError of its entry point and hands over no chunk.
C16_FirstInListing ==
    \A p \in Procs : OnDuplicate(p) =>
        LET k == FirstCarrier(pre[p], arg[p])
        IN  /\ op[p] = "async_get_backup" =>
                  /\ status[p] = "returned"
                  /\ result[p] = << from_dict(pre[p][k].meta.backup_metadata) >>
            /\ op[p] = "async_delete_backup" =>
                  /\ status[p] = "returned"
                  /\ bucket = [pre[p] EXCEPT ![k] = Absent]
                  /\ Carries(bucket, LastCarrier(pre[p], arg[p]), arg[p])
            /\ op[p] = "async_download_backup" =>
                  (raised[p] = AwaitTypeError /\ yielded[p] = << >>)

\* A delete on a duplicated backup_id removed the first carrier; the last one,
\* with another record, is still in the bucket.
C16_Witness ==
    \E p \in Procs :
        /\ OnDuplicate(p) /\ op[p] = "async_delete_backup" /\ status[p] = "returned"
        /\ ~ bucket[FirstCarrier(pre[p], arg[p])].present
        /\ Carriers(bucket, arg[p]) = {LastCarrier(pre[p], arg[p])}
        /\ pre[p][FirstCarrier(pre[p], arg[p])].meta # pre[p][LastCarrier(pre[p], arg[p])].meta

----------------------------------------------------------------------------
(* C17 *)

\* Buckets b and c hold the same object under every key but k.
SameBut(b, c, k) == \A j \in Keys \ {k} : b[j] = c[j]

\* C17: a delete_backup(X) leaves the bucket as it was until its one delete_object
\* call, which goes to the key resolved for X; when it has returned, that key is
\* empty and every other object is as before; when it has failed, with
\* BackupNotFound or on a fault, the bucket is as before.  An upload_backup changes
\* nothing but the key derived from its record.  list_backups, get_backup and
\* download_backup leave the bucket as it was, however they end.
C17_Frame ==
    \A p \in Procs :
        /\ op[p] = "async_delete_backup" =>
              /\ calls[p].delete_object <= 1
              /\ calls[p].put_object = 0
              /\ (~ Done(p) /\ pc[p] # "release") =>
                    (calls[p].delete_object = 0 /\ bucket = pre[p])
              /\ pc[p] = "delete_object" => key[p] = FirstCarrier(pre[p], arg[p])
              /\ pc[p] = "release" =>
                    (calls[p].delete_object = 1 /\ bucket = [pre[p] EXCEPT ![key[p]] = Absent])
              /\ (Done(p) /\ status[p] = "returned") =>
                    /\ calls[p].delete_object = 1
                    /\ ~ bucket[FirstCarrier(pre[p], arg[p])].present
                    /\ SameBut(bucket, pre[p], FirstCarrier(pre[p], arg[p]))
              /\ (Done(p) /\ status[p] = "raised") => bucket = pre[p]
        /\ op[p] = "async_upload_backup" =>
              /\ calls[p].delete_object = 0
              /\ SameBut(bucket, pre[p], suggested_filename(backup[p]))
        /\ op[p] \in {"async_list_backups", "async_get_backup", "async_download_backup"} =>
              /\ bucket = pre[p]
              /\ calls[p].delete_object = 0 /\ calls[p].put_object = 0

\* A delete returned on a bucket that holds two other objects besides the one it
\* removed, one of them carrying the same backup_id.
C17_Witness ==
    \E p \in Procs :
        /\ Done(p) /\ op[p] = "async_delete_backup" /\ status[p] = "returned"
        /\ Cardinality(Present(bucket)) = 2
        /\ Carriers(bucket, arg[p]) # {}

----------------------------------------------------------------------------
(* C18 *)

\* The positions at which an invocation issues a store call.
StoreCallPcs == {"find_page", "find_head", "list_page", "list_head", "head_key",
                 "delete_object", "put_object"}

\* C18: an invocation is at one position of its code at a time and issues its
\* store calls there one by one, each through the client it holds; it holds one
\* open client at most, and in get and delete the client of the resolve scan is
\* released before the client of the data call is acquired; and no client is held
\* by two invocations at once.
C18_OneClientEach ==
    \A p \in Procs :
        /\ acquired[p] - released[p] \in {0, 1}
        /\ client[p] # NoClient <=> acquired[p] - released[p] = 1
        /\ pc[p] \in StoreCallPcs => client[p] # NoClient
        /\ (Resolves(p) /\ pc[p] = "client") =>
              (client[p] = NoClient /\ acquired[p] = 1 /\ released[p] = 1)
        /\ (Resolves(p) /\ pc[p] \in {"head_key", "delete_object"}) =>
              (acquired[p] = 2 /\ released[p] = 1)
        /\ \A q \in Procs \ {p} : client[p] # NoClient => client[q] # client[p]

\* Two invocations hold a client each at the same time, one of them its second
\* (after its resolve scan), the other in the middle of a scan.
C18_Witness ==
    \E p \in Procs : \E q \in Procs \ {p} :
        /\ client[p] # NoClient /\ client[q] # NoClient /\ client[p] # client[q]
        /\ pc[p] = "delete_object" /\ acquired[p] = 2
        /\ pc[q] = "find_head"

----------------------------------------------------------------------------
(* C19 *)

\* C19: no remove callback has failed; while a listener is registered and not
\* removed, hass.data[DATA_BACKUP_AGENT_LISTENERS] is a non-empty list that holds
\* every such listener as many times as it is registered, and nothing else; when
\* none is, hass.data has no such key; the other keys of hass.data are untouched.
C19_ListenerRegistry ==
    /\ lastRemove.raised = NoExc
    /\ IF Total(removers, Listeners) = 0
       THEN DATA_BACKUP_AGENT_LISTENERS \notin DOMAIN hassData
       ELSE /\ DATA_BACKUP_AGENT_LISTENERS \in DOMAIN hassData
            /\ hassData[DATA_BACKUP_AGENT_LISTENERS] # << >>
            /\ Len(hassData[DATA_BACKUP_AGENT_LISTENERS]) = Total(removers, Listeners)
            /\ \A l \in Listeners :
                  Occurrences(hassData[DATA_BACKUP_AGENT_LISTENERS], l) = removers[l]
    /\ OtherKey \in DOMAIN hassData /\ hassData[OtherKey] = << >>

\* The callback of the last registered listener was called: the key is gone.
C19_Witness ==
    /\ lastRemove.listener # None
    /\ Total(removers, Listeners) = 0
    /\ DOMAIN hassData = {OtherKey}

----------------------------------------------------------------------------
(* C20 *)

\* The errors the claim gives for each outcome of the probe.
ExpectedErrors(outcome) ==
    CASE outcome = NoExc -> {}
      [] outcome.type = "ClientError"
           /\ outcome.code \in {"403", "InvalidAccessKeyId", "SignatureDoesNotMatch"} ->
              {<< "base", "invalid_auth" >>}
      [] outcome.type = "ClientError" /\ outcome.code \in {"404", "NoSuchBucket"} ->
              {<< "base", "cannot_connect" >>}
      [] outcome.type = "ParamValidationError" -> {<< "base", "invalid_config" >>}
      [] OTHER -> {<< "base", "unknown" >>}

\* The step created an entry, or updated one, with the configuration just probed.
Created == flow'.type = "create_entry" /\ entries' = Append(entries, probe'.config)

Updated ==
    /\ flow'.type = "abort" /\ flow'.step_id = "reauth_successful"
    /\ \E i \in 1..Len(entries) :
          /\ entries' = [entries EXCEPT ![i] = probe'.config]
          /\ probe'.config.bucket_name = entries[i].bucket_name

\* C20: validate_config maps every outcome of the probe to the errors the claim
\* gives, none exactly when the probe succeeded and one under "base" otherwise; a
\* flow step changes the entries only by creating (user step) or updating (reauth)
\* an entry with the configuration whose probe has just succeeded; and a step that
\* shows a form leaves the entries as they were and, after a failed probe, shows
\* the errors of that probe.
C20_ConfigFlowGating ==
    /\ [](/\ \A outcome \in ProbeOutcomes :
                /\ validate_config(outcome) = ExpectedErrors(outcome)
                /\ validate_config(outcome) = {} <=> outcome = NoExc
                /\ outcome # NoExc => Cardinality(validate_config(outcome)) = 1
          /\ (flow.type = "create_entry" \/ flow.step_id = "reauth_successful") =>
                (probe.outcome = NoExc /\ flow.data = probe.config /\ flow.errors = {})
          /\ (flow.type = "form" /\ flow.errors # {}) =>
                (probe.outcome # NoExc /\ flow.errors = ExpectedErrors(probe.outcome)))
    /\ [][/\ entries' # entries => (probe'.outcome = NoExc /\ (Created \/ Updated))
          /\ flow'.type = "create_entry" => Created
          /\ flow'.step_id = "reauth_successful" => Updated
          /\ flow'.type = "form" => entries' = entries
          /\ probe'.outcome # NoExc =>
                (entries' = entries /\ flow'.type \in {"form", "abort"})]_vars

\* A reauth went through on the second of two entries: it now holds the probed
\* configuration, with a secret that differs from the one of the first entry.
C20_Witness ==
    /\ flow.step_id = "reauth_successful"
    /\ Len(entries) = 2
    /\ entries[2] = flow.data /\ probe.config = flow.data /\ probe.outcome = NoExc
    /\ entries[2].secret_access_key # entries[1].secret_access_key

====
